---- MODULE Spec2Model ----
(***************************************************************************)
(* Checkpoint manager of ppocr/utils/save_load.py: load_model, init_model, *)
(* load_dygraph_params, load_pretrained_params, save_model and             *)
(* _mkdir_if_not_exist, over an explicit file system, a model parameter    *)
(* state and an optimizer state.                                           *)
(*                                                                         *)
(* Encoding.  A path is a sequence of tokens: directory/file components,   *)
(* followed by suffix tokens (".pdparams", ".pdopt", ".states") that are   *)
(* glued to the component before them, so <<"out","ppocr",".pdopt">> is    *)
(* out/ppocr.pdopt.  A trailing "/" token is a trailing separator.  An     *)
(* optional configuration value is a sequence of zero or one values        *)
(* (None == <<>>).  A Python dict is a function on a finite set of keys.   *)
(* A tensor is a record of dtype, shape and data.                          *)
(***************************************************************************)
EXTENDS Integers, Sequences, FiniteSets, TLC

VARIABLES model, optimizer, fs, call, saved, calls, pc, made, dirState

vars == <<model, optimizer, fs, call, saved, calls, pc, made, dirState>>

(***************************************************************************)
(* Bounds of the model.                                                    *)
(***************************************************************************)
MaxEpoch == 1
MaxCalls == 1
MaxOps == 3
NumProcs == 3

(***************************************************************************)
(* Tensors and their dtype cast.                                           *)
(***************************************************************************)
Names == {"a", "b"}
NameOrder == <<"a", "b">>
Shapes == {<<3>>, <<2, 2>>}

\* Half precision represents only the even data values of this model.
HalfData == {0, 2}
FullData == {1, 2}

Tensors ==
    [dtype : {"float16"}, shape : Shapes, data : HalfData]
        \cup [dtype : {"float32"}, shape : Shapes, data : FullData]

\* Tensor.astype(dtype): the shape is kept, the data is rounded to what the
\* new dtype represents.
astype(t, dtype) ==
    [dtype |-> dtype,
     shape |-> t.shape,
     data |-> IF dtype = "float16" THEN 2 * (t.data \div 2) ELSE t.data]

\* Every parameter mapping over the key set K.
ParamMaps(K) == [K -> Tensors]

AllParamMaps == UNION {ParamMaps(K) : K \in SUBSET Names}

EmptyDict == [k \in {} |-> 0]

\* d[k] = v on a dict.
DictSet(d, k, v) == [x \in DOMAIN d \cup {k} |-> IF x = k THEN v ELSE d[x]]

\* dict.get(k, default)
DictGet(d, k, default) == IF k \in DOMAIN d THEN d[k] ELSE default

\* The keys of a dict in iteration order (the order of NameOrder).
KeySeq(d) == SelectSeq(NameOrder, LAMBDA k : k \in DOMAIN d)

(***************************************************************************)
(* Paths and the file system.                                              *)
(***************************************************************************)
None == <<>>
Some(v) == <<v>>

TruthyNotNone(o) == o # None

\* Python truthiness of an optional string: neither None nor "".
Truthy(o) == o # None /\ o[1] # <<>>

Suffixes == {".pdparams", ".pdopt", ".states"}

EndsWith(p, tok) == Len(p) > 0 /\ p[Len(p)] = tok

\* p + suffix
Plus(p, suffix) == Append(p, suffix)

\* str.replace('.pdparams', ''): every occurrence is removed.
StripPdparams(p) == SelectSeq(p, LAMBDA t : t # ".pdparams")

\* os.path.join(p, c)
Join(p, c) ==
    (IF EndsWith(p, "/") THEN SubSeq(p, 1, Len(p) - 1) ELSE p) \o <<c>>

RECURSIVE DropSuffixes(_)
DropSuffixes(p) ==
    IF Len(p) > 0 /\ p[Len(p)] \in Suffixes
    THEN DropSuffixes(SubSeq(p, 1, Len(p) - 1))
    ELSE p

\* The directory a file path lies in.
Parent(p) ==
    LET q == DropSuffixes(p)
    IN  IF Len(q) = 0 THEN <<>> ELSE SubSeq(q, 1, Len(q) - 1)

Dir == [kind |-> "dir"]
File(v) == [kind |-> "file", val |-> v]

\* os.path.exists / os.path.isdir
Exists(f, p) == p \in DOMAIN f
IsDir(f, p) == p \in DOMAIN f /\ f[p].kind = "dir"
IsFile(f, p) == p \in DOMAIN f /\ f[p].kind = "file"

Put(f, p, c) == [q \in DOMAIN f \cup {p} |-> IF q = p THEN c ELSE f[q]]

\* os.makedirs(p): p and its missing ancestors become directories.
makedirs(f, p) ==
    LET anc == {SubSeq(p, 1, n) : n \in 1..Len(p)}
    IN  [q \in DOMAIN f \cup anc |-> IF q \in DOMAIN f THEN f[q] ELSE Dir]

(***************************************************************************)
(* Collaborators: paddle.load, Layer.set_state_dict, the download resolver.*)
(***************************************************************************)
\* paddle.load(p): the object stored in the file.
Load(f, p) == f[p].val

\* model.set_state_dict(d): the entries of d replace the model's parameters of
\* the same name; names the model does not have are ignored.
set_state_dict(m, d) == [k \in DOMAIN m |-> IF k \in DOMAIN d THEN d[k] ELSE m[k]]

IsLink(p) == Len(p) > 0 /\ p[1] = "https:"

ModelsDir == <<"models">>

\* What the remote source serves for every link of this model.
RemoteParams == [k \in {"b"} |-> [dtype |-> "float16", shape |-> <<3>>, data |-> 2]]

\* maybe_download_params(p): a local path (or a non-link) is returned as it is;
\* a link is fetched into ModelsDir under its last component.
maybe_download_params(f, p) ==
    IF Exists(f, p) \/ ~IsLink(p)
    THEN [fs |-> f, path |-> p]
    ELSE LET q == DropSuffixes(p)
             tmp == ModelsDir \o SubSeq(p, Len(q), Len(p))
         IN  [fs |-> Put(makedirs(f, ModelsDir), tmp, File(RemoteParams)), path |-> tmp]

(***************************************************************************)
(* The outcome of one call: the state it leaves, how it ended ("ok" or the *)
(* exception raised), what it returned, the kinds of message it logged and *)
(* the paths it handed to the download resolver.                           *)
(***************************************************************************)
Out(m, o, f, status, ret, log, dl) ==
    [model |-> m, optimizer |-> o, fs |-> f, status |-> status, ret |-> ret,
     log |-> log, dl |-> dl]

\* Truthiness of config Global.pretrained_model: None, a path or a list.
PretrainedSet(pm) == IF pm.isList THEN pm.items # <<>> ELSE Truthy(pm.items)

(***************************************************************************)
(* load_pretrained_params                                                  *)
(***************************************************************************)
\* The loop of load_pretrained_params over the keys of the loaded params: the
\* is_float16 flag it leaves.
PretrainedHalfSeen(state_dict, params) ==
    \E k1 \in DOMAIN params :
        k1 \in DOMAIN state_dict /\ params[k1].dtype = "float16"

\* The same loop: the new_state_dict it builds.
PretrainedMerge(state_dict, params) ==
    LET keys == {k1 \in DOMAIN params : k1 \in DOMAIN state_dict}
        cast(k1) == IF params[k1].dtype # state_dict[k1].dtype
                    THEN astype(params[k1], state_dict[k1].dtype)
                    ELSE params[k1]
    IN  [k1 \in {k \in keys : state_dict[k].shape = cast(k).shape} |-> cast(k1)]

PretrainedLog(state_dict, params) ==
    (IF \E k1 \in DOMAIN params : k1 \notin DOMAIN state_dict
     THEN {"pretrained params not in model"} ELSE {})
    \cup (IF \E k1 \in DOMAIN params \cap DOMAIN state_dict :
                state_dict[k1].shape # params[k1].shape
          THEN {"shape not matched"} ELSE {})
    \cup (IF PretrainedHalfSeen(state_dict, params)
          THEN {"float16 converted"} ELSE {})
    \cup {"load pretrain successful"}

\* load_pretrained_params(model, path); ret is the returned is_float16.
load_pretrained_params(path, m, o, f) ==
    LET r == maybe_download_params(f, path)
        p == IF EndsWith(r.path, ".pdparams") THEN StripPdparams(r.path) ELSE r.path
        file == Plus(p, ".pdparams")
    IN  IF ~Exists(r.fs, file)
        THEN Out(m, o, r.fs, "AssertionError", FALSE, {}, {path})
        ELSE LET params == Load(r.fs, file)
             IN  Out(set_state_dict(m, PretrainedMerge(m, params)), o, r.fs, "ok",
                     PretrainedHalfSeen(m, params), PretrainedLog(m, params), {path})

(***************************************************************************)
(* load_model                                                              *)
(***************************************************************************)
CheckpointHalfSeenOnCast(state_dict, params) ==
    \E key \in DOMAIN state_dict :
        /\ key \in DOMAIN params
        /\ params[key].dtype # state_dict[key].dtype
        /\ params[key].dtype = "float16"

\* The loop of load_model's checkpoint branch over the keys of the model: the
\* is_float16 flag it leaves.
CheckpointHalfSeen(state_dict, params) ==
    \E key \in DOMAIN state_dict :
        key \in DOMAIN params /\ params[key].dtype = "float16"

CheckpointMergeNoShapeCheck(state_dict, params) ==
    LET keys == {key \in DOMAIN state_dict : key \in DOMAIN params}
        pre_value(key) == IF params[key].dtype # state_dict[key].dtype
                          THEN astype(params[key], state_dict[key].dtype)
                          ELSE params[key]
    IN  [key \in keys |-> pre_value(key)]

\* The same loop: the new_state_dict it builds.
CheckpointMerge(state_dict, params) ==
    LET keys == {key \in DOMAIN state_dict : key \in DOMAIN params}
        pre_value(key) == IF params[key].dtype # state_dict[key].dtype
                          THEN astype(params[key], state_dict[key].dtype)
                          ELSE params[key]
    IN  [key \in {k \in keys : state_dict[k].shape = pre_value(k).shape}
            |-> pre_value(key)]

CheckpointLog(state_dict, params) ==
    (IF \E key \in DOMAIN state_dict : key \notin DOMAIN params
     THEN {"not in loaded params"} ELSE {})
    \cup (IF \E key \in DOMAIN state_dict \cap DOMAIN params :
                state_dict[key].shape # params[key].shape
          THEN {"shape not matched"} ELSE {})
    \cup (IF CheckpointHalfSeen(state_dict, params)
          THEN {"float16 converted"} ELSE {})

CheckpointStatesSameEpoch(f, checkpoints) ==
    IF Exists(f, Plus(checkpoints, ".states"))
    THEN LET states_dict == Load(f, Plus(checkpoints, ".states"))
             best_model_dict == DictGet(states_dict, "best_model_dict", EmptyDict)
         IN  IF "epoch" \in DOMAIN states_dict
             THEN DictSet(best_model_dict, "start_epoch", states_dict["epoch"])
             ELSE best_model_dict
    ELSE EmptyDict

\* The metadata read from checkpoints + '.states'.
CheckpointStates(f, checkpoints) ==
    IF Exists(f, Plus(checkpoints, ".states"))
    THEN LET states_dict == Load(f, Plus(checkpoints, ".states"))
             best_model_dict == DictGet(states_dict, "best_model_dict", EmptyDict)
         IN  IF "epoch" \in DOMAIN states_dict
             THEN DictSet(best_model_dict, "start_epoch", states_dict["epoch"] + 1)
             ELSE best_model_dict
    ELSE EmptyDict

\* The metadata read from <checkpoints>/metric.states (structured extraction).
MetricStates(f, checkpoints) ==
    LET file == Plus(Join(checkpoints, "metric"), ".states")
    IN  IF Exists(f, file)
        THEN LET states_dict == Load(f, file)
                 best_model_dict == DictGet(states_dict, "best_model_dict", EmptyDict)
             IN  IF "epoch" \in DOMAIN states_dict
                 THEN DictSet(best_model_dict, "start_epoch", states_dict["epoch"] + 1)
                 ELSE best_model_dict
        ELSE EmptyDict

\* The branch of load_model for structured-extraction ("kie", not SDMGR) models.
load_model_nlp(config, useOpt, m, o, f) ==
    IF config.algorithm = "Distillation"
    THEN Out(m, o, f, "ok", EmptyDict, {}, {})
    ELSE IF ~Truthy(config.backbone_checkpoints)
    THEN Out(m, o, f, "ok", EmptyDict, {}, {})
    ELSE LET checkpoints == config.backbone_checkpoints[1]
             stripped == IF EndsWith(checkpoints, "/")
                         THEN SubSeq(checkpoints, 1, Len(checkpoints) - 1)
                         ELSE checkpoints
             hasOpt == useOpt /\ Exists(f, Plus(stripped, ".pdopt"))
         IN  Out(m,
                 IF hasOpt THEN Load(f, Plus(stripped, ".pdopt")) ELSE o,
                 f, "ok", MetricStates(f, checkpoints),
                 {"resume from"}
                     \cup (IF useOpt /\ ~hasOpt THEN {"pdopt is not exists"} ELSE {}),
                 {})

\* The checkpoint branch of load_model.
load_model_checkpoints(config, useOpt, m, o, f) ==
    LET given == config.checkpoints[1]
        checkpoints == IF EndsWith(given, ".pdparams") THEN StripPdparams(given) ELSE given
    IN  IF ~Exists(f, Plus(checkpoints, ".pdparams"))
        THEN Out(m, o, f, "AssertionError", EmptyDict, {}, {})
        ELSE LET params == Load(f, Plus(checkpoints, ".pdparams"))
                 is_float16 == CheckpointHalfSeen(m, params)
                 hasOpt == useOpt /\ Exists(f, Plus(checkpoints, ".pdopt"))
             IN  Out(set_state_dict(m, CheckpointMerge(m, params)),
                     IF hasOpt THEN Load(f, Plus(checkpoints, ".pdopt")) ELSE o,
                     f, "ok",
                     DictSet(CheckpointStates(f, checkpoints), "is_float16", is_float16),
                     CheckpointLog(m, params) \cup {"resume from"}
                         \cup (IF useOpt /\ ~hasOpt THEN {"pdopt is not exists"} ELSE {}),
                     {})

\* The pretrained branch of load_model.
load_model_pretrained(config, m, o, f) ==
    IF config.pretrained_model.isList
    THEN Out(m, o, f, "TypeError", EmptyDict, {}, {})
    ELSE LET r == load_pretrained_params(config.pretrained_model.items[1], m, o, f)
         IN  IF r.status = "ok"
             THEN [r EXCEPT !.ret = DictSet(EmptyDict, "is_float16", r.ret)]
             ELSE [r EXCEPT !.ret = EmptyDict]

\* The last branch of load_model.
load_model_scratch(m, o, f) ==
    Out(m, o, f, "ok", DictSet(EmptyDict, "is_float16", FALSE),
        {"train from scratch"}, {})

load_model_pretrained_first(config, useOpt, model_type, m, o, f) ==
    LET is_nlp_model == model_type = "kie" /\ config.algorithm # "SDMGR"
    IN  IF is_nlp_model
        THEN load_model_nlp(config, useOpt, m, o, f)
        ELSE IF PretrainedSet(config.pretrained_model)
        THEN load_model_pretrained(config, m, o, f)
        ELSE IF Truthy(config.checkpoints)
        THEN load_model_checkpoints(config, useOpt, m, o, f)
        ELSE load_model_scratch(m, o, f)

\* load_model(config, model, optimizer, model_type)
load_model(config, useOpt, model_type, m, o, f) ==
    LET is_nlp_model == model_type = "kie" /\ config.algorithm # "SDMGR"
    IN  IF is_nlp_model
        THEN load_model_nlp(config, useOpt, m, o, f)
        ELSE IF Truthy(config.checkpoints)
        THEN load_model_checkpoints(config, useOpt, m, o, f)
        ELSE IF PretrainedSet(config.pretrained_model)
        THEN load_model_pretrained(config, m, o, f)
        ELSE load_model_scratch(m, o, f)

(***************************************************************************)
(* init_model                                                              *)
(***************************************************************************)
\* The metadata read by init_model from checkpoints + '.states'.
InitStates(f, checkpoints) ==
    IF Exists(f, Plus(checkpoints, ".states"))
    THEN LET states_dict == Load(f, Plus(checkpoints, ".states"))
             best_model_dict == DictGet(states_dict, "best_model_dict", EmptyDict)
         IN  IF "epoch" \in DOMAIN states_dict
             THEN DictSet(best_model_dict, "start_epoch", states_dict["epoch"] + 1)
             ELSE best_model_dict
    ELSE EmptyDict

\* The loop of init_model over the pretrained_model list, from entry i on.
RECURSIVE init_model_pretrained(_, _, _, _, _)
init_model_pretrained(items, i, m, o, f) ==
    IF i > Len(items)
    THEN Out(m, o, f, "ok", EmptyDict, {"load pretrained model from"}, {})
    ELSE LET pretrained == items[i]
         IN  IF ~(IsDir(f, pretrained) \/ Exists(f, Plus(pretrained, ".pdparams")))
             THEN Out(m, o, f, "ValueError", EmptyDict,
                      IF i > 1 THEN {"load pretrained model from"} ELSE {}, {})
             ELSE IF ~IsFile(f, Plus(pretrained, ".pdparams"))
             THEN Out(m, o, f, "LoadError", EmptyDict,
                      IF i > 1 THEN {"load pretrained model from"} ELSE {}, {})
             ELSE init_model_pretrained(
                      items, i + 1,
                      set_state_dict(m, Load(f, Plus(pretrained, ".pdparams"))), o, f)

init_model_params_only(config, useOpt, m, o, f) ==
    IF Truthy(config.checkpoints)
    THEN LET checkpoints == config.checkpoints[1]
         IN  IF ~Exists(f, Plus(checkpoints, ".pdparams"))
                    \/ ~Exists(f, Plus(checkpoints, ".pdopt"))
             THEN Out(m, o, f, "AssertionError", EmptyDict, {}, {})
             ELSE Out(set_state_dict(m, Load(f, Plus(checkpoints, ".pdparams"))),
                      o, f, "ok", InitStates(f, checkpoints), {"resume from"}, {})
    ELSE IF PretrainedSet(config.pretrained_model)
    THEN init_model_pretrained(config.pretrained_model.items, 1, m, o, f)
    ELSE Out(m, o, f, "ok", EmptyDict, {"train from scratch"}, {})

\* init_model(config, model, optimizer)
init_model(config, useOpt, m, o, f) ==
    IF Truthy(config.checkpoints)
    THEN LET checkpoints == config.checkpoints[1]
         IN  IF ~Exists(f, Plus(checkpoints, ".pdparams"))
                    \/ ~Exists(f, Plus(checkpoints, ".pdopt"))
             THEN Out(m, o, f, "AssertionError", EmptyDict, {}, {})
             ELSE Out(set_state_dict(m, Load(f, Plus(checkpoints, ".pdparams"))),
                      IF useOpt THEN Load(f, Plus(checkpoints, ".pdopt")) ELSE o,
                      f, "ok", InitStates(f, checkpoints), {"resume from"}, {})
    ELSE IF PretrainedSet(config.pretrained_model)
    THEN init_model_pretrained(config.pretrained_model.items, 1, m, o, f)
    ELSE Out(m, o, f, "ok", EmptyDict, {"train from scratch"}, {})

(***************************************************************************)
(* load_dygraph_params                                                     *)
(***************************************************************************)
\* The positional pairing zip(state_dict.keys(), params.keys()).
DygraphMerge(state_dict, params) ==
    LET ks1 == KeySeq(state_dict)
        ks2 == KeySeq(params)
        n == IF Len(ks1) < Len(ks2) THEN Len(ks1) ELSE Len(ks2)
        hit == {i \in 1..n : state_dict[ks1[i]].shape = params[ks2[i]].shape}
    IN  [k1 \in {ks1[i] : i \in hit}
            |-> params[ks2[CHOOSE i \in hit : ks1[i] = k1]]]

\* The branch of load_dygraph_params that reads pretrained_model.
load_dygraph_pretrained(config, m, o, f) ==
    LET pmv == config.pretrained_model
    IN  IF ~pmv.isList /\ pmv.items = None
        THEN Out(m, o, f, "ok", EmptyDict, {}, {})
        ELSE IF pmv.isList
        THEN Out(m, o, f, "TypeError", EmptyDict, {}, {})
        ELSE LET pm0 == pmv.items[1]
                 pm == IF EndsWith(pm0, ".pdparams") THEN pm0 ELSE Plus(pm0, ".pdparams")
             IN  IF ~Exists(f, pm0) /\ ~Exists(f, Plus(pm0, ".pdparams"))
                 THEN Out(m, o, f, "ok", EmptyDict,
                          {"pretrained_model does not exists"}, {})
                 ELSE IF ~IsFile(f, pm)
                 THEN Out(m, o, f, "LoadError", EmptyDict, {}, {})
                 ELSE LET params == Load(f, pm)
                          ks1 == KeySeq(m)
                          ks2 == KeySeq(params)
                      IN  Out(set_state_dict(m, DygraphMerge(m, params)),
                              o, f, "ok", EmptyDict,
                              {"loaded pretrained_model successful"}
                                \cup (IF \E i \in 1..Len(ks1) :
                                          /\ i <= Len(ks2)
                                          /\ m[ks1[i]].shape # params[ks2[i]].shape
                                      THEN {"shape not matched"} ELSE {}),
                              {})

load_dygraph_params_empty(config, useOpt, m, o, f) ==
    IF Truthy(config.checkpoints) /\ Exists(f, Plus(config.checkpoints[1], ".pdparams"))
    THEN [init_model(config, useOpt, m, o, f) EXCEPT !.ret = EmptyDict]
    ELSE load_dygraph_pretrained(config, m, o, f)

\* load_dygraph_params(config, model, logger, optimizer)
load_dygraph_params(config, useOpt, m, o, f) ==
    IF Truthy(config.checkpoints) /\ Exists(f, Plus(config.checkpoints[1], ".pdparams"))
    THEN init_model(config, useOpt, m, o, f)
    ELSE load_dygraph_pretrained(config, m, o, f)

(***************************************************************************)
(* save_model                                                              *)
(***************************************************************************)
\* _mkdir_if_not_exist(path) run without interference: nothing to do when the
\* path exists; otherwise os.makedirs creates it, or fails (oserr) with an
\* error other than EEXIST, which is raised as OSError.
_mkdir_if_not_exist(f, path, oserr) ==
    IF Exists(f, path)
    THEN [fs |-> f, raised |-> FALSE]
    ELSE IF oserr
    THEN [fs |-> f, raised |-> TRUE]
    ELSE [fs |-> makedirs(f, path), raised |-> FALSE]

\* backbone.model.save_pretrained(dir): the backbone's own save routine writes
\* the parameters into the directory dir.
save_pretrained(f, dir, m) ==
    Put(makedirs(f, dir), Plus(Join(dir, "model_state"), ".pdparams"), File(m))

SaveArtifactsNoMirror(config, prefix, kwargs, model_path, m, o, f) ==
    LET model_prefix == Join(model_path, prefix)
        is_nlp_model == config.model_type = "kie" /\ config.algorithm # "SDMGR"
        f1 == Put(f, Plus(model_prefix, ".pdopt"), File(o))
        f3 == IF ~is_nlp_model
              THEN Put(f1, Plus(model_prefix, ".pdparams"), File(m))
              ELSE save_pretrained(f1, model_prefix, m)
        metric_prefix == IF ~is_nlp_model THEN model_prefix
                         ELSE Join(model_prefix, "metric")
    IN  Put(f3, Plus(metric_prefix, ".states"), File(kwargs))

\* The artifacts save_model writes once its directories exist.
SaveArtifacts(config, prefix, kwargs, model_path, m, o, f) ==
    LET model_prefix == Join(model_path, prefix)
        best == prefix = "best_accuracy"
        best_model_path == Join(model_path, "best_model")
        is_nlp_model == config.model_type = "kie" /\ config.algorithm # "SDMGR"
        f1 == Put(f, Plus(model_prefix, ".pdopt"), File(o))
        f2 == IF best
              THEN Put(f1, Plus(Join(best_model_path, "model"), ".pdopt"), File(o))
              ELSE f1
        f3 == IF ~is_nlp_model
              THEN Put(f2, Plus(model_prefix, ".pdparams"), File(m))
              ELSE save_pretrained(f2, model_prefix, m)
        f4 == IF ~best THEN f3
              ELSE IF ~is_nlp_model
              THEN Put(f3, Plus(Join(best_model_path, "model"), ".pdparams"), File(m))
              ELSE save_pretrained(f3, best_model_path, m)
        metric_prefix == IF ~is_nlp_model THEN model_prefix
                         ELSE Join(model_prefix, "metric")
    IN  Put(f4, Plus(metric_prefix, ".states"), File(kwargs))

\* save_model(model, optimizer, model_path, logger, config, is_best, prefix, **kwargs)
save_model(config, is_best, prefix, kwargs, model_path, oserr, m, o, f) ==
    LET r1 == _mkdir_if_not_exist(f, model_path, oserr)
        best_model_path == Join(model_path, "best_model")
        r2 == IF prefix = "best_accuracy"
              THEN _mkdir_if_not_exist(r1.fs, best_model_path, oserr)
              ELSE r1
    IN  IF r1.raised
        THEN Out(m, o, f, "OSError", EmptyDict, {}, {})
        ELSE IF r2.raised
        THEN Out(m, o, r1.fs, "OSError", EmptyDict, {}, {})
        ELSE IF ~IsDir(r2.fs, model_path)
        THEN Out(m, o, r2.fs, "IOError", EmptyDict, {}, {})
        ELSE Out(m, o, SaveArtifacts(config, prefix, kwargs, model_path, m, o, r2.fs),
                 "ok", EmptyDict,
                 IF is_best THEN {"save best model is to"} ELSE {"save model in"}, {})

(***************************************************************************)
(* Configurations and the record of a call.                                *)
(***************************************************************************)
NoPretrained == [isList |-> FALSE, items |-> None]
PretrainedPath(p) == [isList |-> FALSE, items |-> <<p>>]
PretrainedList(l) == [isList |-> TRUE, items |-> l]

Config(ck, pm, mt, alg, bck) ==
    [checkpoints |-> ck, pretrained_model |-> pm, model_type |-> mt,
     algorithm |-> alg, backbone_checkpoints |-> bck]

NoConfig == Config(None, NoPretrained, "det", "DB", None)

NoCall ==
    [op |-> "none", config |-> NoConfig, useOpt |-> FALSE, model_type |-> "det",
     path |-> <<>>, prefix |-> "", is_best |-> FALSE, kwargs |-> EmptyDict,
     model_path |-> <<>>,
     pre |-> [model |-> EmptyDict, optimizer |-> 0, fs |-> EmptyDict],
     status |-> "ok", ret |-> EmptyDict, log |-> {}, dl |-> {}]

NoSave == [done |-> FALSE, model_path |-> <<>>, prefix |-> "", nlp |-> FALSE,
           model |-> EmptyDict, optimizer |-> 0]

\* The state a call leaves, with the call recorded.
Becomes(r, c) ==
    /\ model' = r.model
    /\ optimizer' = r.optimizer
    /\ fs' = r.fs
    /\ call' = [c EXCEPT !.pre = [model |-> model, optimizer |-> optimizer, fs |-> fs],
                         !.status = r.status, !.ret = r.ret, !.log = r.log,
                         !.dl = r.dl]

(***************************************************************************)
(* The operations as actions.                                              *)
(***************************************************************************)
LoadModel(config, useOpt, model_type) ==
    /\ Becomes(load_model(config, useOpt, model_type, model, optimizer, fs),
               [NoCall EXCEPT !.op = "load_model", !.config = config,
                              !.useOpt = useOpt, !.model_type = model_type])
    /\ UNCHANGED <<saved, pc, made, dirState>>

InitModel(config, useOpt) ==
    /\ Becomes(init_model(config, useOpt, model, optimizer, fs),
               [NoCall EXCEPT !.op = "init_model", !.config = config,
                              !.useOpt = useOpt])
    /\ UNCHANGED <<saved, pc, made, dirState>>

LoadDygraphParams(config, useOpt) ==
    /\ Becomes(load_dygraph_params(config, useOpt, model, optimizer, fs),
               [NoCall EXCEPT !.op = "load_dygraph_params", !.config = config,
                              !.useOpt = useOpt])
    /\ UNCHANGED <<saved, pc, made, dirState>>

LoadPretrainedParams(path) ==
    /\ Becomes(load_pretrained_params(path, model, optimizer, fs),
               [NoCall EXCEPT !.op = "load_pretrained_params", !.path = path])
    /\ UNCHANGED <<saved, pc, made, dirState>>

SaveModel(config, is_best, prefix, kwargs, model_path, oserr) ==
    LET r == save_model(config, is_best, prefix, kwargs, model_path, oserr,
                        model, optimizer, fs)
    IN  /\ Becomes(r, [NoCall EXCEPT !.op = "save_model", !.config = config,
                                      !.is_best = is_best, !.prefix = prefix,
                                      !.kwargs = kwargs, !.model_path = model_path])
        /\ saved' = IF r.status = "ok"
                    THEN [done |-> TRUE, model_path |-> model_path, prefix |-> prefix,
                          nlp |-> config.model_type = "kie" /\ config.algorithm # "SDMGR",
                          model |-> model, optimizer |-> optimizer]
                    ELSE saved
        /\ UNCHANGED <<pc, made, dirState>>

\* The caller constructs a fresh model and optimizer of the same architecture.
Fresh ==
    /\ model' = [k \in DOMAIN model |-> [model[k] EXCEPT !.data = 1]]
    /\ optimizer' = 0
    /\ call' = [NoCall EXCEPT !.op = "fresh"]
    /\ UNCHANGED <<fs, saved, pc, made, dirState>>

(***************************************************************************)
(* SpecMerge: one stored parameter file, any model; the two name-by-name   *)
(* loaders run on it.                                                      *)
(***************************************************************************)
Latest == <<"out", "latest">>
LatestParams == Plus(Latest, ".pdparams")

\* No process is saving concurrently.
RaceIdle ==
    /\ pc = EmptyDict
    /\ made = EmptyDict
    /\ dirState = EmptyDict

MergeInit ==
    /\ model \in AllParamMaps
    /\ optimizer = 0
    /\ \E stored \in AllParamMaps :
          fs = Put(makedirs(EmptyDict, <<"out">>), LatestParams, File(stored))
    /\ call = NoCall
    /\ saved = NoSave
    /\ calls = 0
    /\ RaceIdle

MergePaths == {Latest, LatestParams}

MergeNext ==
    \/ \E ck \in MergePaths :
          /\ LoadModel(Config(Some(ck), NoPretrained, "det", "DB", None), FALSE, "det")
          /\ UNCHANGED calls
    \/ \E path \in MergePaths :
          /\ LoadPretrainedParams(path)
          /\ UNCHANGED calls

SpecMerge == MergeInit /\ [][MergeNext]_vars

\* The call just made is one of the two name-by-name loaders, completed.
MergeCall ==
    /\ call.op \in {"load_model", "load_pretrained_params"}
    /\ call.status = "ok"

StoredParams == Load(call.pre.fs, LatestParams)

\* C3: after the checkpoint branch of load_model, or load_pretrained_params,
\* every parameter of the model that the loaded mapping has with the same shape
\* equals the loaded value cast to the parameter's prior dtype; every other
\* parameter keeps its pre-load value; the model gains no parameter.
C3_MergeByName ==
    MergeCall =>
        /\ DOMAIN model = DOMAIN call.pre.model
        /\ \A k \in DOMAIN call.pre.model :
              IF k \in DOMAIN StoredParams
                    /\ StoredParams[k].shape = call.pre.model[k].shape
              THEN model[k] = astype(StoredParams[k], call.pre.model[k].dtype)
              ELSE model[k] = call.pre.model[k]

\* C3 witness: one parameter was applied with a cast that changed it, another
\* kept its value because the stored shape differs.
C3_Witness ==
    /\ MergeCall
    /\ call.op = "load_model"
    /\ DOMAIN call.pre.model = {"a", "b"}
    /\ DOMAIN StoredParams = {"a", "b"}
    /\ StoredParams["a"].dtype = "float32" /\ call.pre.model["a"].dtype = "float16"
    /\ StoredParams["a"].shape = call.pre.model["a"].shape
    /\ StoredParams["a"].data = 1
    /\ model["a"] = [dtype |-> "float16", shape |-> StoredParams["a"].shape, data |-> 0]
    /\ model["a"] # call.pre.model["a"]
    /\ StoredParams["b"].shape # call.pre.model["b"].shape
    /\ model["b"] = call.pre.model["b"]

IsFloat16Flag == IF call.op = "load_model" THEN call.ret["is_float16"] ELSE call.ret

\* C4 as stated: the flag is true exactly when a half-precision stored value
\* was cast to the target's dtype and applied to the model.
C4_FlagIffPromotionApplied ==
    MergeCall =>
        (IsFloat16Flag <=>
            \E k \in DOMAIN call.pre.model \cap DOMAIN StoredParams :
                /\ StoredParams[k].dtype = "float16"
                /\ call.pre.model[k].dtype # "float16"
                /\ StoredParams[k].shape = call.pre.model[k].shape)

\* C4 amended: the flag is true exactly when some parameter name of the model
\* has a half-precision value in the loaded mapping, whether or not that value
\* needed a cast or was applied.
C4_FlagIffHalfSource ==
    MergeCall =>
        (IsFloat16Flag <=>
            \E k \in DOMAIN call.pre.model \cap DOMAIN StoredParams :
                StoredParams[k].dtype = "float16")

\* C4 witness: the flag is true although the only half-precision stored value
\* was skipped for its shape.
C4_Witness ==
    /\ MergeCall
    /\ IsFloat16Flag
    /\ \E k \in DOMAIN call.pre.model \cap DOMAIN StoredParams :
          /\ StoredParams[k].dtype = "float16"
          /\ call.pre.model[k].dtype = "float32"
          /\ StoredParams[k].shape # call.pre.model[k].shape
          /\ model[k] = call.pre.model[k]
    /\ \A k \in DOMAIN call.pre.model \cap DOMAIN StoredParams :
          StoredParams[k].shape = call.pre.model[k].shape
              => StoredParams[k].dtype = "float32"

(***************************************************************************)
(* Spec: a fixed model and optimizer before a file system that has, or     *)
(* lacks, each artifact the loaders look for; every loader is called with  *)
(* every configuration of Configs.                                         *)
(***************************************************************************)
T(dtype, shape, data) == [dtype |-> dtype, shape |-> shape, data |-> data]

FreshModel == [k \in {"a", "b"} |->
                 IF k = "a" THEN T("float32", <<2, 2>>, 1) ELSE T("float32", <<3>>, 1)]

\* Stored parameter mappings.
ParamsA == [k \in {"a"} |-> T("float32", <<2, 2>>, 2)]
ParamsB == [k \in {"a", "b"} |->
              IF k = "a" THEN T("float32", <<2, 2>>, 2) ELSE T("float32", <<3>>, 2)]
ParamsC == [k \in {"a"} |-> T("float32", <<3>>, 2)]

Pre == <<"pre", "model">>
Pre2 == <<"pre", "extra">>
PreDir == <<"pre">>
Kie == <<"kie", "ckpt">>
Missing == <<"out", "missing">>
Link == <<"https:", "host", "weights", ".pdparams">>

Metrics(acc) == [k \in {"acc"} |-> acc]

\* A pickled metadata record: best_model_dict and epoch, each optional.
StatesRecord(best, epoch) ==
    [k \in (IF best = None THEN {} ELSE {"best_model_dict"})
            \cup (IF epoch = None THEN {} ELSE {"epoch"})
       |-> IF k = "epoch" THEN epoch[1] ELSE best[1]]

OneRecord == StatesRecord(Some(Metrics(1)), Some(MaxEpoch))

\* The files of fs0 plus the file at p when present.
With(fs0, present, p, v) == IF present THEN Put(fs0, p, File(v)) ELSE fs0

BaseFS == makedirs(makedirs(makedirs(EmptyDict, <<"out">>), PreDir), Kie)

Init ==
    /\ model = FreshModel
    /\ optimizer = 0
    /\ \E hasParams, hasOpt, hasStates, hasPre, hasPre2, hasKie \in BOOLEAN :
          fs = With(With(With(With(With(With(With(BaseFS,
                    hasParams, Plus(Latest, ".pdparams"), ParamsA),
                    hasOpt, Plus(Latest, ".pdopt"), 1),
                    hasStates, Plus(Latest, ".states"), OneRecord),
                    hasPre, Plus(Pre, ".pdparams"), ParamsB),
                    hasPre2, Plus(Pre2, ".pdparams"), ParamsC),
                    hasKie, Plus(Join(Kie, "metric"), ".states"), OneRecord),
                    hasKie, Plus(Kie, ".pdopt"), 1)
    /\ call = NoCall
    /\ saved = NoSave
    /\ calls = 0
    /\ RaceIdle

SetCheckpoints == {Some(Latest), Some(LatestParams), Some(Missing)}
UnsetCheckpoints == {None, Some(<<>>)}

PretrainedChoices ==
    {NoPretrained, PretrainedPath(<<>>), PretrainedPath(Pre), PretrainedPath(PreDir),
     PretrainedPath(Plus(Pre, ".pdparams")), PretrainedPath(Pre2),
     PretrainedList(<<>>), PretrainedList(<<Pre, Pre2>>), PretrainedList(<<Pre2, Pre>>)}

\* Configurations of ordinary models.
LoaderConfigs ==
    {Config(ck, pm, "det", "DB", None) :
        ck \in SetCheckpoints, pm \in {NoPretrained, PretrainedPath(Pre)}}
    \cup {Config(ck, pm, "det", "DB", None) :
            ck \in UnsetCheckpoints, pm \in PretrainedChoices}

\* The same, with a link as pretrained_model, and with load_model's model_type
\* "kie" under the SDMGR algorithm.
PlainConfigs ==
    LoaderConfigs
    \cup {Config(ck, PretrainedPath(Link), "det", "DB", None) :
            ck \in {None, Some(Latest)}}
    \cup {Config(ck, NoPretrained, "kie", "SDMGR", Some(Kie)) :
            ck \in {None, Some(Latest)}}

\* Configurations of structured-extraction models.
NlpConfigs ==
    {Config(g[1], g[2], "kie", alg, bck) :
        g \in {<<None, NoPretrained>>, <<Some(Latest), PretrainedPath(Pre)>>},
        alg \in {"LayoutXLM", "Distillation"},
        bck \in {None, Some(Kie), Some(Append(Kie, "/"))}}

Configs == PlainConfigs \cup NlpConfigs

PretrainedPaths == {Pre, Plus(Pre, ".pdparams"), Pre2, Missing, Link}

\* One more call within the budget of calls.
Counted(limit) == calls < limit /\ calls' = calls + 1

Next ==
    \/ \E config \in Configs, useOpt \in BOOLEAN :
          Counted(MaxCalls) /\ LoadModel(config, useOpt, config.model_type)
    \/ \E config \in LoaderConfigs, useOpt \in BOOLEAN :
          Counted(MaxCalls) /\ InitModel(config, useOpt)
    \/ \E config \in LoaderConfigs, useOpt \in BOOLEAN :
          Counted(MaxCalls) /\ LoadDygraphParams(config, useOpt)
    \/ \E path \in PretrainedPaths :
          Counted(MaxCalls) /\ LoadPretrainedParams(path)

Spec == Init /\ [][Next]_vars

(***************************************************************************)
(* Claims checked under Spec.                                              *)
(***************************************************************************)
\* What the configuration of the last call says, read off literally.
UnsetCheckpoint == call.config.checkpoints \in {None, Some(<<>>)}
UnsetPretrained ==
    call.config.pretrained_model
        \in {NoPretrained, PretrainedPath(<<>>), PretrainedList(<<>>)}
NlpCall == call.model_type = "kie" /\ call.config.algorithm \in {"LayoutXLM", "Distillation"}
NlpConfig(c) == c.model_type = "kie" /\ c.algorithm \in {"LayoutXLM", "Distillation"}

Untouched == model = call.pre.model /\ optimizer = call.pre.optimizer

OnlyFloat16False == [k \in {"is_float16"} |-> FALSE]

\* C1 as stated: with neither checkpoints nor pretrained_model set, load_model
\* returns exactly {is_float16: false}, init_model returns an empty record, and
\* the model and the optimizer are as before the call.
C1_UnsetIsNoOp ==
    /\ (call.op = "load_model" /\ UnsetCheckpoint /\ UnsetPretrained) =>
          call.status = "ok" /\ call.ret = OnlyFloat16False /\ Untouched
    /\ (call.op = "init_model" /\ UnsetCheckpoint /\ UnsetPretrained) =>
          call.status = "ok" /\ call.ret = EmptyDict /\ Untouched

\* C1 amended: the same, for load_model only when the model is not a
\* structured-extraction model ("kie" with an algorithm other than SDMGR).
C1_UnsetIsNoOpPlain ==
    /\ (call.op = "load_model" /\ ~NlpCall /\ UnsetCheckpoint /\ UnsetPretrained) =>
          call.status = "ok" /\ call.ret = OnlyFloat16False /\ Untouched
    /\ (call.op = "init_model" /\ UnsetCheckpoint /\ UnsetPretrained) =>
          call.status = "ok" /\ call.ret = EmptyDict /\ Untouched

\* C1 witness: load_model ran from scratch on an empty checkpoints string while
\* a checkpoint and a pretrained file were on disk.
C1_Witness ==
    /\ call.op = "load_model"
    /\ call.config.checkpoints = Some(<<>>)
    /\ call.config.pretrained_model = PretrainedList(<<>>)
    /\ Exists(fs, LatestParams) /\ Exists(fs, Plus(Pre, ".pdparams"))
    /\ call.ret = OnlyFloat16False
    /\ "train from scratch" \in call.log
    /\ Untouched

\* The file a checkpoints or pretrained path stands for.
ParamsFile(p) == Plus(SelectSeq(p, LAMBDA t : t # ".pdparams"), ".pdparams")

\* A file the last call requires is absent.
RequiredAbsent ==
    \/ /\ call.op = "load_model" /\ ~NlpCall /\ ~UnsetCheckpoint
       /\ ~Exists(call.pre.fs, ParamsFile(call.config.checkpoints[1]))
    \/ /\ call.op = "load_model" /\ ~NlpCall /\ UnsetCheckpoint /\ ~UnsetPretrained
       /\ ~call.config.pretrained_model.isList
       /\ ~IsLink(call.config.pretrained_model.items[1])
       /\ ~Exists(call.pre.fs, ParamsFile(call.config.pretrained_model.items[1]))
    \/ /\ call.op = "init_model" /\ ~UnsetCheckpoint
       /\ \/ ~Exists(call.pre.fs, Plus(call.config.checkpoints[1], ".pdparams"))
          \/ ~Exists(call.pre.fs, Plus(call.config.checkpoints[1], ".pdopt"))
    \/ /\ call.op = "init_model" /\ UnsetCheckpoint /\ ~UnsetPretrained
       /\ \E i \in 1..Len(call.config.pretrained_model.items) :
             ~Exists(call.pre.fs, Plus(call.config.pretrained_model.items[i], ".pdparams"))
    \/ /\ call.op = "load_pretrained_params"
       /\ ~IsLink(call.path)
       /\ ~Exists(call.pre.fs, ParamsFile(call.path))

\* C2: when a file that load_model, init_model or load_pretrained_params
\* requires is absent, the call fails and the model and the optimizer are as
\* they were before the call.
C2_AbsentFailsUntouched ==
    RequiredAbsent => call.status # "ok" /\ Untouched

Delegated ==
    /\ ~UnsetCheckpoint
    /\ Exists(call.pre.fs, Plus(call.config.checkpoints[1], ".pdparams"))

TookCheckpoint ==
    \/ "resume from" \in call.log
    \/ call.status = "AssertionError" /\ call.dl = {}
TookPretrained == call.dl # {} \/ call.status = "TypeError"
TookScratch == "train from scratch" \in call.log

\* C10: for a model that is not a structured-extraction model, load_model runs
\* exactly one branch: the checkpoint branch when checkpoints is set (then
\* pretrained_model is neither resolved, downloaded nor loaded), the pretrained
\* load when only pretrained_model is set, the no-op when neither is set.
C10_FirstMatch ==
    (call.op = "load_model" /\ ~NlpCall) =>
        /\ TookCheckpoint <=> ~UnsetCheckpoint
        /\ TookPretrained <=> (UnsetCheckpoint /\ ~UnsetPretrained)
        /\ TookScratch <=> (UnsetCheckpoint /\ UnsetPretrained)
        /\ ~UnsetCheckpoint =>
              /\ call.dl = {}
              /\ fs = call.pre.fs
              /\ "load pretrain successful" \notin call.log
              /\ \A k \in DOMAIN model :
                    \/ model[k] = call.pre.model[k]
                    \/ k \in DOMAIN ParamsA /\ model[k] = ParamsA[k]

\* C10 witness: checkpoints and pretrained_model both set and both on disk; the
\* checkpoint was loaded and the pretrained file left alone.
C10_Witness ==
    /\ call.op = "load_model" /\ ~NlpCall
    /\ call.config.checkpoints = Some(Latest)
    /\ call.config.pretrained_model = PretrainedPath(Pre)
    /\ Exists(call.pre.fs, Plus(Pre, ".pdparams"))
    /\ call.status = "ok"
    /\ model["a"] = ParamsA["a"]
    /\ model["b"] = call.pre.model["b"]
    /\ call.dl = {}

(***************************************************************************)
(* SpecStates: a complete checkpoint whose metadata record is any record   *)
(* of StatesRecords, or is missing; the resuming loaders run on it.        *)
(***************************************************************************)
\* A best_model_dict that was itself returned by an earlier resume.
ResumedMetrics == [k \in {"acc", "start_epoch"} |-> IF k = "acc" THEN 1 ELSE 7]

StatesRecords ==
    {StatesRecord(best, epoch) :
        best \in {None, Some(Metrics(1)), Some(ResumedMetrics)},
        epoch \in {None} \cup {Some(e) : e \in 0..MaxEpoch}}

StatesFiles == {None} \cup {Some(r) : r \in StatesRecords}

StatesBaseFS ==
    Put(Put(Put(BaseFS, LatestParams, File(ParamsA)),
            Plus(Latest, ".pdopt"), File(1)),
        Plus(Pre, ".pdparams"), File(ParamsB))

StatesInit ==
    /\ model = FreshModel
    /\ optimizer = 0
    /\ \E plain \in StatesFiles, metric \in StatesFiles :
          fs = With(With(StatesBaseFS,
                    plain # None, Plus(Latest, ".states"),
                    IF plain = None THEN EmptyDict ELSE plain[1]),
                    metric # None, Plus(Join(Kie, "metric"), ".states"),
                    IF metric = None THEN EmptyDict ELSE metric[1])
    /\ call = NoCall
    /\ saved = NoSave
    /\ calls = 0
    /\ RaceIdle

StatesLoadConfigs ==
    {Config(Some(Latest), NoPretrained, "det", "DB", None),
     Config(None, NoPretrained, "kie", "LayoutXLM", Some(Kie)),
     Config(None, NoPretrained, "kie", "Distillation", Some(Kie))}

StatesInitConfigs ==
    {Config(Some(Latest), NoPretrained, "det", "DB", None),
     Config(None, PretrainedPath(Pre), "det", "DB", None)}

StatesNext ==
    \/ \E config \in StatesLoadConfigs, useOpt \in BOOLEAN :
          /\ LoadModel(config, useOpt, config.model_type)
          /\ UNCHANGED calls
    \/ \E config \in StatesInitConfigs, useOpt \in BOOLEAN :
          /\ InitModel(config, useOpt)
          /\ UNCHANGED calls

SpecStates == StatesInit /\ [][StatesNext]_vars

\* The last call resumed from a checkpoint.
Resumed ==
    /\ call.op \in {"load_model", "init_model"}
    /\ call.status = "ok"
    /\ "resume from" \in call.log

\* The metadata file the last call looked for.
ResumedStatesFile ==
    IF NlpCall THEN Plus(Join(Kie, "metric"), ".states") ELSE Plus(Latest, ".states")

HasRecord == Exists(call.pre.fs, ResumedStatesFile)
Record == Load(call.pre.fs, ResumedStatesFile)
StoredBest ==
    IF "best_model_dict" \in DOMAIN Record THEN Record["best_model_dict"] ELSE EmptyDict

\* The stored best_model_dict is in the returned record, start_epoch apart.
BestMerged ==
    \A k \in DOMAIN StoredBest \ {"start_epoch"} :
        k \in DOMAIN call.ret /\ call.ret[k] = StoredBest[k]

PretrainedInit ==
    /\ call.op = "init_model"
    /\ UnsetCheckpoint
    /\ call.status = "ok"

\* C7 as stated: a resume from a record with epoch = e returns start_epoch =
\* e + 1 merged into the stored best_model_dict; from a record without epoch it
\* returns no start_epoch key; init_model's pretrained branch loads no metadata.
C7_StartEpoch ==
    /\ (Resumed /\ HasRecord) =>
          /\ BestMerged
          /\ IF "epoch" \in DOMAIN Record
             THEN /\ "start_epoch" \in DOMAIN call.ret
                  /\ call.ret["start_epoch"] = Record["epoch"] + 1
             ELSE "start_epoch" \notin DOMAIN call.ret
    /\ PretrainedInit => call.ret = EmptyDict

\* C7 amended: from a record without epoch no start_epoch is derived: the
\* returned record has start_epoch only if the stored best_model_dict has it,
\* with the stored value.
C7_StartEpochDerived ==
    /\ (Resumed /\ HasRecord) =>
          /\ BestMerged
          /\ DOMAIN call.ret \subseteq DOMAIN StoredBest \cup {"start_epoch", "is_float16"}
          /\ IF "epoch" \in DOMAIN Record
             THEN /\ "start_epoch" \in DOMAIN call.ret
                  /\ call.ret["start_epoch"] = Record["epoch"] + 1
             ELSE /\ "start_epoch" \in DOMAIN call.ret
                        <=> "start_epoch" \in DOMAIN StoredBest
                  /\ "start_epoch" \in DOMAIN StoredBest
                        => call.ret["start_epoch"] = StoredBest["start_epoch"]
    /\ PretrainedInit => call.ret = EmptyDict

\* C7 witness: load_model resumed from a record with the largest epoch and
\* returned the next epoch beside the stored metric.
C7_Witness ==
    /\ Resumed /\ HasRecord
    /\ call.op = "load_model" /\ ~NlpCall
    /\ "epoch" \in DOMAIN Record /\ Record["epoch"] = MaxEpoch
    /\ StoredBest = ResumedMetrics
    /\ call.ret["start_epoch"] = MaxEpoch + 1
    /\ call.ret["acc"] = 1

(***************************************************************************)
(* SpecSave: a trained model and optimizer are saved, fresh ones are       *)
(* constructed, and init_model resumes; at most MaxOps steps.              *)
(***************************************************************************)
OutDir == <<"out">>
BestModelDir == Join(OutDir, "best_model")

TrainedModels ==
    {[k \in {"a", "b"} |->
        IF k = "a" THEN T("float32", <<2, 2>>, 2) ELSE T("float32", <<3>>, d)] :
     d \in FullData}

SaveInit ==
    /\ model \in TrainedModels
    /\ optimizer = 1
    /\ fs \in {EmptyDict, makedirs(EmptyDict, OutDir)}
    /\ call = NoCall
    /\ saved = NoSave
    /\ calls = 0
    /\ RaceIdle

Prefixes == {"ppocr", "best_accuracy", "best_model"}

SaveConfigs ==
    {Config(None, NoPretrained, "det", "DB", None),
     Config(None, NoPretrained, "kie", "SDMGR", None),
     Config(None, NoPretrained, "kie", "LayoutXLM", None),
     Config(None, NoPretrained, "kie", "Distillation", None)}

SaveKwargs == {OneRecord, StatesRecord(Some(Metrics(1)), None)}

\* os.makedirs can fail only where save_model calls it.
MakedirsOutcomes(prefix) ==
    IF ~Exists(fs, OutDir) \/ (prefix = "best_accuracy" /\ ~Exists(fs, BestModelDir))
    THEN BOOLEAN
    ELSE {FALSE}

ResumeConfigs ==
    {Config(Some(Join(OutDir, prefix)), NoPretrained, "det", "DB", None) :
        prefix \in Prefixes}

SaveNext ==
    \/ \E config \in SaveConfigs, is_best \in BOOLEAN, prefix \in Prefixes :
          \E kwargs \in SaveKwargs, oserr \in MakedirsOutcomes(prefix) :
              /\ Counted(MaxOps)
              /\ SaveModel(config, is_best, prefix, kwargs, OutDir, oserr)
    \/ Counted(MaxOps) /\ Fresh
    \/ \E config \in ResumeConfigs, useOpt \in BOOLEAN :
          Counted(MaxOps) /\ InitModel(config, useOpt)

SpecSave == SaveInit /\ [][SaveNext]_vars

\* The last call is init_model, with an optimizer, on the prefix of the last
\* completed save.
ResumesLastSave ==
    /\ call.op = "init_model"
    /\ call.useOpt
    /\ saved.done
    /\ call.config.checkpoints = Some(Join(saved.model_path, saved.prefix))

\* C5 as stated: save_model into D with prefix p, then init_model with
\* checkpoints = D/p, yields the saved parameter and optimizer state.
C5_RoundTrip ==
    ResumesLastSave =>
        call.status = "ok" /\ model = saved.model /\ optimizer = saved.optimizer

\* C5 amended: the round trip holds when the save was made under a
\* configuration that is not a structured-extraction one (model_type "kie" with
\* an algorithm other than SDMGR), whose save writes no D/p.pdparams.
C5_RoundTripPlain ==
    (ResumesLastSave /\ ~saved.nlp) =>
        call.status = "ok" /\ model = saved.model /\ optimizer = saved.optimizer

\* C5 witness: fresh model and optimizer, differing from the saved ones, were
\* brought to the saved state.
C5_Witness ==
    /\ ResumesLastSave /\ ~saved.nlp
    /\ call.status = "ok"
    /\ call.pre.model # saved.model
    /\ call.pre.optimizer # saved.optimizer
    /\ model = saved.model
    /\ optimizer = saved.optimizer

\* p is the directory d or lies in it.
Under(p, d) ==
    /\ Len(p) >= Len(d)
    /\ SubSeq(p, 1, Len(d)) = d
    /\ Len(p) > Len(d) => p[Len(d) + 1] \notin Suffixes

\* The last call created the file p or changed its content.
Wrote(p) ==
    /\ IsFile(fs, p)
    /\ ~Exists(call.pre.fs, p) \/ call.pre.fs[p] # fs[p]

Mirrored(suffix) ==
    Wrote(Plus(Join(OutDir, "best_accuracy"), suffix)) =>
        /\ Exists(fs, Plus(Join(BestModelDir, "model"), suffix))
        /\ fs[Plus(Join(BestModelDir, "model"), suffix)]
              = fs[Plus(Join(OutDir, "best_accuracy"), suffix)]

BestModelKept ==
    \A p \in DOMAIN fs \cup DOMAIN call.pre.fs :
        Under(p, BestModelDir) =>
            /\ p \in DOMAIN fs /\ p \in DOMAIN call.pre.fs
            /\ fs[p] = call.pre.fs[p]

SaveCompleted == call.op = "save_model" /\ call.status = "ok"

Procs == 1..NumProcs

\* The directories save_model ensures, in order: model_path, and best_model
\* under it when the prefix is "best_accuracy".
DirsOf(best) == IF best THEN <<OutDir, BestModelDir>> ELSE <<OutDir>>

RaceInit ==
    /\ model = EmptyDict
    /\ optimizer = 0
    /\ fs = EmptyDict
    /\ call = NoCall
    /\ saved = NoSave
    /\ calls = 0
    /\ pc = [p \in Procs |-> "exists"]
    /\ made \in [Procs -> [best : BOOLEAN, errno : {"none"}, how : {<<>>}]]
    /\ dirState = [d \in {OutDir, BestModelDir} |-> "absent"]

\* The directory process p is ensuring.
Current(p) == DirsOf(made[p].best)[Len(made[p].how) + 1]

\* Process p is through with Current(p), in the way given.
Ensured(p, way) ==
    LET how == Append(made[p].how, way)
    IN  /\ made' = [made EXCEPT ![p] = [@ EXCEPT !.how = how, !.errno = "none"]]
        /\ pc' = [pc EXCEPT ![p] =
                    IF Len(how) = Len(DirsOf(made[p].best)) THEN "write" ELSE "exists"]

\* if not os.path.exists(path)
MkdirExists(p) ==
    /\ pc[p] = "exists"
    /\ IF dirState[Current(p)] = "dir"
       THEN Ensured(p, "found")
       ELSE pc' = [pc EXCEPT ![p] = "makedirs"] /\ made' = made
    /\ UNCHANGED <<model, optimizer, fs, call, saved, calls, dirState>>

\* The errno os.makedirs fails with on a directory in the given state, "none"
\* when it creates it; EACCES stands for every failure other than EEXIST.
makedirs_errno(state) == IF state = "dir" THEN {"EEXIST"} ELSE {"none", "EACCES"}

\* os.makedirs(path)
MkdirMakedirs(p) ==
    /\ pc[p] = "makedirs"
    /\ \E errno \in makedirs_errno(dirState[Current(p)]) :
          IF errno = "none"
          THEN /\ dirState' = [dirState EXCEPT ![Current(p)] = "dir"]
               /\ Ensured(p, "created")
          ELSE /\ made' = [made EXCEPT ![p].errno = errno]
               /\ pc' = [pc EXCEPT ![p] = "except"]
               /\ dirState' = dirState
    /\ UNCHANGED <<model, optimizer, fs, call, saved, calls>>

mkdir_tolerates_nothing(errno, isdir) == FALSE

\* The handler's test: e.errno == errno.EEXIST and os.path.isdir(path)
mkdir_tolerates(errno, isdir) == errno = "EEXIST" /\ isdir

\* except OSError as e
MkdirExcept(p) ==
    /\ pc[p] = "except"
    /\ IF mkdir_tolerates(made[p].errno, dirState[Current(p)] = "dir")
       THEN Ensured(p, "tolerated")
       ELSE pc' = [pc EXCEPT ![p] = "raised"] /\ made' = made
    /\ UNCHANGED <<model, optimizer, fs, call, saved, calls, dirState>>

RaceNext ==
    \E p \in Procs : MkdirExists(p) \/ MkdirMakedirs(p) \/ MkdirExcept(p)

SpecRace == RaceInit /\ [][RaceNext]_vars

\* C9: no process raises because another process created the directory
\* first: a process raises only on a failure other than EEXIST, and every such
\* failure raises; a process that goes on to write found each of its
\* directories, created it, or tolerated EEXIST, and the directories exist.
C9_RaceTolerated ==
    \A p \in DOMAIN pc :
        /\ pc[p] = "raised" => made[p].errno = "EACCES"
        /\ (made[p].errno = "EACCES" /\ pc[p] # "except") => pc[p] = "raised"
        /\ pc[p] = "write" =>
              /\ made[p].errno = "none"
              /\ Len(made[p].how) = Len(DirsOf(made[p].best))
              /\ \A i \in 1..Len(made[p].how) :
                    /\ made[p].how[i] \in {"found", "created", "tolerated"}
                    /\ dirState[DirsOf(made[p].best)[i]] = "dir"

\* C9 witness: one process created the destination, another lost the race
\* between its check and its os.makedirs, tolerated EEXIST and went on.
C9_Witness ==
    \E p, q \in DOMAIN pc :
        /\ p # q
        /\ pc[p] = "write" /\ pc[q] = "write"
        /\ made[p].how[1] = "created"
        /\ made[q].how[1] = "tolerated"

====
